---- MODULE Spec2Model ----
(***************************************************************************)
(* A model of fir's synchronizer (src/src/sync.ts, src/src/queries.ts):    *)
(* put, sync and trim of a declarative node graph against an iModel.       *)
(*                                                                         *)
(* Every method of Sync is an operator that takes the world w (the iModel  *)
(* tables, the touched set, the pending exception) and returns the world   *)
(* after the call, with the returned value in w.ret.  An exception is      *)
(* w.err # "none": every later step of the call is skipped, and the store  *)
(* writes made before the throw stay (the engine opens no transaction).    *)
(***************************************************************************)
EXTENDS Integers, Sequences, FiniteSets, TLC

\* ------------------------------------------------------------------------
\* Well-known identifiers
\* ------------------------------------------------------------------------
RootId == 1
RepoId == 1
NoId == 0

\* ------------------------------------------------------------------------
\* Bounds
\* ------------------------------------------------------------------------
MaxId == 8
MaxRel == 2
MaxDepth == 6
MaxForeign == 1

\* ------------------------------------------------------------------------
\* The node graph handed to the synchronizer.  The shape of each node is
\* fixed; the caller edits version, checksum, fields and aspects (desc).
\* ------------------------------------------------------------------------
ElementNodes == {"B", "S", "P", "X", "Y", "C", "K", "U", "V", "E", "Z"}
ModelNodes == {"G"}
RelNodes == {"r", "o"}
Sentinels == {"root subject", "repository"}

\* element.model
ElModel == [n \in ElementNodes |->
              IF n \in {"X", "Y", "C", "E", "Z"} THEN "G" ELSE "repository"]

\* element.parent ("none": no parent property)
ElParent == [n \in ElementNodes |->
               CASE n = "P" -> "root subject"
                 [] n = "K" -> "P"
                 [] OTHER -> "none"]

\* element.classFullName, reduced to what trimTree tests with instanceof
ElClass == [n \in ElementNodes |-> IF n = "C" THEN "category" ELSE "plain"]

\* element.meta.scope
MetaScope == [n \in ElementNodes |->
                CASE n \in {"B", "S", "P", "E"} -> "root subject"
                  [] n = "U" -> "V"
                  [] n = "V" -> "U"
                  [] OTHER -> "S"]

\* the scope path of the node ends at the root subject within k steps
RECURSIVE ScopeEndsWithin(_, _)
ScopeEndsWithin(n, k) ==
    \/ n = "root subject"
    \/ k > 0 /\ ScopeEndsWithin(MetaScope[n], k - 1)

\* the element nodes whose scope path ends at the root subject; U and V are
\* scoped to each other
Rooted == {n \in ElementNodes : ScopeEndsWithin(n, Cardinality(ElementNodes))}

\* element.meta.source ("none": undefined)
MetaSource == [n \in ElementNodes |->
                 CASE n = "P" -> "S"
                   [] n = "Z" -> "E"
                   [] OTHER -> "none"]

\* element.meta.kind
MetaKind == [n \in ElementNodes |-> IF n = "B" THEN "ts" ELSE "json"]

\* element.meta.anchor
MetaAnchor == [n \in ElementNodes |-> n]

\* model.modeledElement and model.parentModel
ModeledElement == [g \in ModelNodes |-> "P"]
ParentModel == [g \in ModelNodes |-> "repository"]

\* relationship.anchor and relationship.classFullName; o is the relationship
\* of anchor r as the caller describes it with the class of parent and child,
\* ElementOwnsChildElements
RelAnchor == [r \in RelNodes |-> "r"]
RelClass == [r \in RelNodes |-> IF r = "o" THEN "owns" ELSE "refers"]

Versions == {"none", "v1", "v2"}
Checksums == {"none", "c1", "c2"}
FieldValues == {"f1", "f2"}
JsonValues == {"none", "j1", "j2"}
AspectLists == {"undefined", "a0", "a1", "a2"}

\* element.aspects as the set of aspects it declares ("a0": the empty array)
DeclaredAspects(a) == IF a \in {"undefined", "a0"} THEN {} ELSE {a}

\* ------------------------------------------------------------------------
\* State
\* ------------------------------------------------------------------------
VARIABLES
    elements,   \* bis:Element rows: id -> row
    models,     \* bis:Model rows, keyed by the id of the modeled element
    rels,       \* link-table relationship instances
    nextId,     \* the next ECInstanceId the store hands out to an element
    nextRel,    \* the next ECInstanceId the store hands out to a relationship
    inUse,      \* definition elements the store refuses to delete
    touched,    \* Sync.touched
    desc,       \* the caller's current description of each element node
    relEnds,    \* the caller's current source and target of each relationship
    last        \* the last call made on the session and what it did

vars == <<elements, models, rels, nextId, nextRel, inUse, touched, desc, relEnds, last>>

NullTag == [id |-> NoId, fullClass |-> "null", source |-> NoId, target |-> NoId]
NoTags == [a \in {} |-> NullTag]

\* the root subject, present in every iModel
RootRow == [cls |-> "subject", model |-> RepoId, parent |-> NoId,
            fields |-> "root", meta |-> <<>>, aspects |-> {},
            fir |-> FALSE, tags |-> NoTags]

\* the repository model, present in every iModel
RepoRow == [parentModel |-> NoId, json |-> "none"]

\* const x = v: v is evaluated once, and F is applied to its value
Let(v, F(_)) == CHOOSE r \in {F(x) : x \in {v}} : TRUE

Min(S) == CHOOSE x \in S : \A y \in S : x <= y

\* the ids of S in the order a query returns them
RECURSIVE SortedSeq(_)
SortedSeq(S) ==
    IF S = {} THEN <<>>
    ELSE Let(Min(S), LAMBDA m :
         Let(S \ {m}, LAMBDA rest : <<m>> \o SortedSeq(rest)))

\* ------------------------------------------------------------------------
\* The world record threaded through a call
\* ------------------------------------------------------------------------
World(el, md, rl, nx, nr, us, tc) ==
    [el |-> el, md |-> md, rel |-> rl, next |-> nx, nextRel |-> nr,
     inUse |-> us, touched |-> tc,
     err |-> "none", depth |-> 0, ret |-> NoId,
     newEl |-> {}, newMd |-> {}, writes |-> 0, delEl |-> {}, delMd |-> {},
     cntE |-> 0, cntM |-> 0, cntA |-> 0, log |-> <<>>]

Ok(w) == w.err = "none"
Fail(w, e) == [w EXCEPT !.err = e]
Ret(w, v) == [w EXCEPT !.ret = v]


\* ------------------------------------------------------------------------
\* The iModel (backend.IModelDb), as far as the synchronizer uses it
\* ------------------------------------------------------------------------
IsDefinition(cls) == cls \in {"definition", "category", "subcategory"}

\* ExternalSourceAspect.findBySource(imodel, scope, kind, anchor).elementId
FindBySource(w, scope, kind, anchor) ==
    Let({i \in DOMAIN w.el :
           /\ Len(w.el[i].meta) > 0
           /\ w.el[i].meta[1].scope = scope
           /\ w.el[i].meta[1].kind = kind
           /\ w.el[i].meta[1].anchor = anchor}, LAMBDA hits :
      IF hits = {} THEN NoId ELSE Min(hits))

\* modelOf: select ECInstanceId from bis:Model where ModeledElement.id = ?
ModelOf(w, modeled) == IF modeled \in DOMAIN w.md THEN modeled ELSE NoId

\* imodel.models.tryGetSubModel: the root subject has no sub-model
TryGetSubModel(w, id) ==
    IF id # RootId /\ id \in DOMAIN w.el /\ id \in DOMAIN w.md THEN id ELSE NoId

\* childrenOfElement: select ECInstanceId from bis:Element where Parent.id = ?
ChildrenOfElement(w, id) == {c \in DOMAIN w.el : w.el[c].parent = id}

\* childrenOfModel: ... where Model.id = ? and Parent is NULL
ChildrenOfModel(w, m) ==
    {c \in DOMAIN w.el : w.el[c].model = m /\ w.el[c].parent = NoId}

\* isManaged: select count(*) from bis:ExternalSourceAspect where Element.id = ?
IsManaged(w, id) == id \in DOMAIN w.el /\ Len(w.el[id].meta) > 0

\* imodel.elements.insertElement; a category comes with its default
\* subcategory, an unmanaged child the store creates with it
InsertElement(w, cls, model, parent, fields) ==
    LET id == w.next
        row == [cls |-> cls, model |-> model, parent |-> parent,
                fields |-> fields, meta |-> <<>>, aspects |-> {},
                fir |-> FALSE, tags |-> NoTags]
        sub == [cls |-> "subcategory", model |-> model, parent |-> id,
                fields |-> "default", meta |-> <<>>, aspects |-> {},
                fir |-> FALSE, tags |-> NoTags]
    IN IF ~Ok(w) THEN w
       ELSE IF model \notin DOMAIN w.md
               \/ (parent # NoId /\ parent \notin DOMAIN w.el)
       THEN Fail(w, "store: invalid element")
       ELSE IF cls = "category"
       THEN [w EXCEPT !.el = w.el @@ (id :> row) @@ ((id + 1) :> sub),
                      !.next = id + 2, !.newEl = @ \cup {id, id + 1},
                      !.writes = @ + 1, !.ret = id]
       ELSE [w EXCEPT !.el = w.el @@ (id :> row),
                      !.next = id + 1, !.newEl = @ \cup {id},
                      !.writes = @ + 1, !.ret = id]

\* imodel.elements.updateElement replacing the row by none
UpdateElementDropping(w, id, cls, model, parent, fields, json) ==
    IF ~Ok(w) THEN w
    ELSE IF id \notin DOMAIN w.el THEN Fail(w, "store: no element")
    ELSE [w EXCEPT !.el = [i \in DOMAIN w.el \ {id} |-> w.el[i]],
                   !.delEl = @ \cup {id}, !.writes = @ + 1]

\* imodel.elements.updateElement with the props of toElement and the merged
\* jsonProperties
UpdateElement(w, id, cls, model, parent, fields, json) ==
    IF ~Ok(w) THEN w
    ELSE IF id \notin DOMAIN w.el THEN Fail(w, "store: no element")
    ELSE [w EXCEPT !.el[id].cls = cls, !.el[id].model = model,
                   !.el[id].parent = parent, !.el[id].fields = fields,
                   !.el[id].fir = json.fir, !.el[id].tags = json.tags,
                   !.writes = @ + 1]

\* imodel.elements.updateElement with new jsonProperties only (tag, cutTag)
UpdateJson(w, id, tags) ==
    IF ~Ok(w) THEN w
    ELSE IF id \notin DOMAIN w.el THEN Fail(w, "store: no element")
    ELSE [w EXCEPT !.el[id].tags = tags, !.el[id].fir = TRUE,
                   !.writes = @ + 1]

\* an insertAspect that stores no external source aspect
InsertExternalAspectSkipped(w, id, esa) ==
    IF ~Ok(w) THEN w
    ELSE IF id \notin DOMAIN w.el THEN Fail(w, "store: no element")
    ELSE [w EXCEPT !.writes = @ + 1]

\* imodel.elements.insertAspect of an external source aspect
InsertExternalAspect(w, id, esa) ==
    IF ~Ok(w) THEN w
    ELSE IF id \notin DOMAIN w.el THEN Fail(w, "store: no element")
    ELSE [w EXCEPT !.el[id].meta = Append(@, esa), !.writes = @ + 1]

\* imodel.elements.updateAspect of the external source aspect of element id
UpdateExternalAspect(w, id, esa) ==
    IF ~Ok(w) THEN w
    ELSE IF id \notin DOMAIN w.el \/ Len(w.el[id].meta) = 0
    THEN Fail(w, "store: no aspect")
    ELSE [w EXCEPT !.el[id].meta = <<esa>>, !.writes = @ + 1]

\* getAspects + deleteAspect of every aspect that is no external source aspect
DeleteStaleAspects(w, id) ==
    IF ~Ok(w) THEN w
    ELSE [w EXCEPT !.el[id].aspects = {},
                   !.writes = @ + (IF w.el[id].aspects = {} THEN 0 ELSE 1)]

\* imodel.elements.insertAspect, once for each declared aspect
InsertAspects(w, id, as) ==
    IF ~Ok(w) \/ as = {} THEN w
    ELSE [w EXCEPT !.el[id].aspects = @ \cup as,
                   !.writes = @ + Cardinality(as)]

\* imodel.models.insertModel: a sub-model has the id of its modeled element
InsertModel(w, modeled, parentModel, json) ==
    IF ~Ok(w) THEN w
    ELSE IF modeled \notin DOMAIN w.el \/ modeled \in DOMAIN w.md
    THEN Fail(w, "store: invalid model")
    ELSE [w EXCEPT !.md = w.md @@
                       (modeled :> [parentModel |-> parentModel, json |-> json]),
                   !.newMd = @ \cup {modeled}, !.writes = @ + 1,
                   !.ret = modeled]

\* imodel.models.updateModel
UpdateModel(w, id, parentModel, json) ==
    IF ~Ok(w) THEN w
    ELSE IF id \notin DOMAIN w.md THEN Fail(w, "store: no model")
    ELSE [w EXCEPT !.md[id] = [parentModel |-> parentModel, json |-> json],
                   !.writes = @ + 1]

\* the elements parented, directly or not, under an element of D
RECURSIVE Descendants(_, _)
Descendants(w, D) ==
    Let(D \cup {c \in DOMAIN w.el : w.el[c].parent \in D}, LAMBDA more :
      IF more = D THEN D ELSE Descendants(w, more))

\* what the store removes with a set of elements: the rows, their aspects
\* (kept in the row) and the link-table instances that end at them
RemoveElements(w, D) ==
    [w EXCEPT !.el = [i \in DOMAIN w.el \ D |-> w.el[i]],
              !.rel = {r \in w.rel : r.source \notin D /\ r.target \notin D},
              !.inUse = @ \ D,
              !.delEl = @ \cup D, !.writes = @ + 1]

\* the entry of the deletion log for the element id, which the store is
\* about to delete with the set D: its parent and its model, the elements it
\* still owns, the elements still in the model of its id, and whether what it owns is no more than
\* the default subcategory of a category
DeletedElement(w, id, D) ==
    [kind |-> "element", id |-> id,
     parent |-> w.el[id].parent, model |-> w.el[id].model,
     aspects |-> Len(w.el[id].meta) + Cardinality(w.el[id].aspects),
     owned |-> D \ {id},
     contained |-> {c \in DOMAIN w.el \ D : w.el[c].model = id},
     exempt |-> /\ w.el[id].cls = "category"
                /\ Cardinality(D) <= 2
                /\ \A c \in D \ {id} : /\ w.el[c].cls = "subcategory"
                                        /\ Len(w.el[c].meta) = 0]

\* the entry of the deletion log for the model id
DeletedModel(w, id) ==
    [kind |-> "model", id |-> id, parent |-> NoId, model |-> NoId,
     aspects |-> 0, owned |-> {},
     contained |-> {c \in DOMAIN w.el : w.el[c].model = id},
     exempt |-> FALSE]

\* the entry of the deletion log for a definition element the store kept
RefusedElement(w, id) ==
    [DeletedElement(w, id, {id}) EXCEPT !.kind = "refused"]

\* imodel.elements.deleteElement: the element goes with the elements it owns
DeleteElement(w, id) ==
    IF ~Ok(w) THEN w
    ELSE IF id \notin DOMAIN w.el THEN Fail(w, "store: no element")
    ELSE Let(Descendants(w, {id}), LAMBDA D :
           RemoveElements([w EXCEPT !.log = Append(@, DeletedElement(w, id, D))],
                          D))

\* imodel.models.deleteModel
DeleteModel(w, id) ==
    IF ~Ok(w) THEN w
    ELSE IF id \notin DOMAIN w.md THEN Fail(w, "store: no model")
    ELSE [w EXCEPT !.md = [i \in DOMAIN w.md \ {id} |-> w.md[i]],
                   !.delMd = @ \cup {id}, !.writes = @ + 1,
                   !.log = Append(@, DeletedModel(w, id))]


\* ------------------------------------------------------------------------
\* Sync: put
\* ------------------------------------------------------------------------
RECURSIVE Put(_, _, _)
RECURSIVE PutElement(_, _, _)
RECURSIVE PutModel(_, _, _)
RECURSIVE MetaOf(_, _, _)
RECURSIVE MapElement(_, _, _, _)
RECURSIVE MapModel(_, _, _, _)
RECURSIVE ToElement(_, _, _)
RECURSIVE ToModel(_, _, _)
RECURSIVE ToExternalAspect(_, _, _)

\* Sync.put, for the sentinels, elements and models (a relationship goes to
\* PutRelationship)
Put(w, d, n) ==
    IF ~Ok(w) THEN w
    ELSE IF n = "repository" THEN Ret(w, RepoId)
    ELSE IF n = "root subject" THEN Ret(w, RootId)
    ELSE IF n \in ElementNodes THEN PutElement(w, d, n)
    ELSE PutModel(w, d, n)

\* Sync.meta looking every key up in the scope of the root subject
MetaOfRootScope(w, d, e) ==
    Let(Put(w, d, MetaScope[e]), LAMBDA w1 :
      IF ~Ok(w1) THEN w1
      ELSE Ret(w1, FindBySource(w1, RootId, MetaKind[e], MetaAnchor[e])))

StackExhausted == "RangeError: Maximum call stack size exceeded"

\* Sync.meta: resolve the scope, then look the external source aspect up
MetaOf(w, d, e) ==
    Let(Put(w, d, MetaScope[e]), LAMBDA w1 :
      IF ~Ok(w1) THEN w1
      ELSE Ret(w1, FindBySource(w1, w1.ret, MetaKind[e], MetaAnchor[e])))

\* Sync.putElement mapping the node onto the element it finds
PutElementUpdating(w, d, e) ==
    IF ~Ok(w) THEN w
    ELSE IF e = "root subject" THEN Ret(w, RootId)
    ELSE IF w.depth >= MaxDepth THEN Fail(w, StackExhausted)
    ELSE
      Let([w EXCEPT !.depth = @ + 1], LAMBDA w0 :
      Let(MetaOf(w0, d, e), LAMBDA w1 :
      Let(IF Ok(w1) THEN MapElement(w1, d, e, w1.ret) ELSE w1, LAMBDA w2 :
        IF ~Ok(w2) THEN w2
        ELSE [w2 EXCEPT !.touched = @ \cup {w2.ret}, !.depth = w.depth])))

\* Sync.putElement returning without an id for a node whose scope path does
\* not end
PutElementSkippingCycle(w, d, e) ==
    IF ~Ok(w) THEN w
    ELSE IF e = "root subject" THEN Ret(w, RootId)
    ELSE IF e \notin Rooted THEN Ret(w, NoId)
    ELSE
      Let([w EXCEPT !.depth = @ + 1], LAMBDA w0 :
      Let(MetaOf(w0, d, e), LAMBDA w1 :
      Let(IF Ok(w1) /\ w1.ret = NoId
          THEN MapElement(w1, d, e, NoId) ELSE w1, LAMBDA w2 :
        IF ~Ok(w2) THEN w2
        ELSE [w2 EXCEPT !.touched = @ \cup {w2.ret}, !.depth = w.depth])))

\* Sync.putElement; the recursion through a scope path that does not end
\* exhausts the call stack, of MaxDepth frames, and the runtime raises
PutElement(w, d, e) ==
    IF ~Ok(w) THEN w
    ELSE IF e = "root subject" THEN Ret(w, RootId)
    ELSE IF w.depth >= MaxDepth THEN Fail(w, StackExhausted)
    ELSE
      Let([w EXCEPT !.depth = @ + 1], LAMBDA w0 :
      Let(MetaOf(w0, d, e), LAMBDA w1 :
      Let(IF Ok(w1) /\ w1.ret = NoId
          THEN MapElement(w1, d, e, NoId) ELSE w1, LAMBDA w2 :
        IF ~Ok(w2) THEN w2
        ELSE [w2 EXCEPT !.touched = @ \cup {w2.ret}, !.depth = w.depth])))

\* Sync.putModel without the lookup through the modeled element
PutModelAlwaysInsert(w, d, g) ==
    IF ~Ok(w) THEN w
    ELSE IF g = "repository" THEN Ret(w, RepoId)
    ELSE
      Let(PutElement(w, d, ModeledElement[g]), LAMBDA w1 :
        IF ~Ok(w1) THEN w1
        ELSE MapModel(w1, d, g, NoId))

\* Sync.putModel
PutModel(w, d, g) ==
    IF ~Ok(w) THEN w
    ELSE IF g = "repository" THEN Ret(w, RepoId)
    ELSE
      Let(PutElement(w, d, ModeledElement[g]), LAMBDA w1 :
        IF ~Ok(w1) THEN w1
        ELSE IF ModelOf(w1, w1.ret) # NoId THEN Ret(w1, ModelOf(w1, w1.ret))
        ELSE MapModel(w1, d, g, NoId))

\* toElement: the props of an element; ret is <<model id, parent id>>
ToElement(w, d, e) ==
    Let(Put(w, d, ElModel[e]), LAMBDA w1 :
    Let(IF ElParent[e] \in {"none", "root subject"} THEN w1
        ELSE Put(w1, d, ElParent[e]), LAMBDA w2 :
      IF ~Ok(w2) THEN w2
      ELSE Ret(w2, <<w1.ret, CASE ElParent[e] = "none" -> NoId
                               [] ElParent[e] = "root subject" -> RootId
                               [] OTHER -> w2.ret>>)))

\* toModel: the props of a model; ret is <<modeled element id, parent model id>>
ToModel(w, d, g) ==
    Let(Put(w, d, ModeledElement[g]), LAMBDA w1 :
    Let(Put(w1, d, ParentModel[g]), LAMBDA w2 :
      IF ~Ok(w2) THEN w2 ELSE Ret(w2, <<w1.ret, w2.ret>>)))

\* Sync.toExternalAspect: the props of the external source aspect of e
ToExternalAspect(w, d, e) ==
    Let(Put(w, d, MetaScope[e]), LAMBDA w1 :
    Let(IF MetaSource[e] = "none" THEN w1 ELSE Put(w1, d, MetaSource[e]),
        LAMBDA w2 :
      IF ~Ok(w2) THEN w2
      ELSE Ret(w2, [scope |-> w1.ret,
                    source |-> IF MetaSource[e] = "none" THEN NoId
                               ELSE w2.ret,
                    kind |-> MetaKind[e], anchor |-> MetaAnchor[e],
                    version |-> d[e].version, checksum |-> d[e].checksum])))

\* the fir namespace of jsonProperties: whether the key is defined, and the
\* tags under it
NoFir == [fir |-> FALSE, tags |-> NoTags]

\* elementProps.jsonProperties of element.to: the descriptions define no key
\* of the fir namespace
UserJson(e) == NoFir

\* imodel.elements.getElementProps(state.id).jsonProperties
FoundJson(w, id) ==
    IF id \in DOMAIN w.el THEN [fir |-> w.el[id].fir, tags |-> w.el[id].tags]
    ELSE NoFir

\* jsonProperties of an update left as the description gives them
MergeJsonFirUserOnly(user, existing) == user

\* mergeJson, as it acts on the fir key of jsonProperties
MergeJsonFir(user, existing) ==
    IF existing = NoFir THEN user
    ELSE IF user # NoFir THEN user ELSE existing

\* Sync.mapElement leaving the external source aspect of an updated element
\* as it was
MapElementStaleAspect(w, d, e, sid) ==
    Let(ToElement(w, d, e), LAMBDA w1 :
    Let(IF ~Ok(w1) THEN w1
        ELSE IF sid # NoId
        THEN UpdateElement(w1, sid, ElClass[e], w1.ret[1], w1.ret[2],
                           d[e].fields,
                           MergeJsonFir(UserJson(e), FoundJson(w1, sid)))
        ELSE InsertElement(w1, ElClass[e], w1.ret[1], w1.ret[2],
                           d[e].fields), LAMBDA w2 :
    Let(IF sid # NoId THEN sid ELSE w2.ret, LAMBDA id :
    Let(ToExternalAspect(w2, d, e), LAMBDA w3 :
    Let(IF ~Ok(w3) THEN w3
        ELSE IF sid # NoId THEN w3
        ELSE InsertExternalAspect(w3, id, w3.ret), LAMBDA w5 :
    Let(IF d[e].aspects # "undefined"
        THEN DeleteStaleAspects(w5, id) ELSE w5, LAMBDA w6 :
    Let(InsertAspects(w6, id, DeclaredAspects(d[e].aspects)), LAMBDA w7 :
      IF ~Ok(w7) THEN w7 ELSE Ret(w7, id))))))))

\* Sync.mapElement; sid is the id to update, NoId for a new element
MapElement(w, d, e, sid) ==
    Let(ToElement(w, d, e), LAMBDA w1 :
    Let(IF ~Ok(w1) THEN w1
        ELSE IF sid # NoId
        THEN UpdateElement(w1, sid, ElClass[e], w1.ret[1], w1.ret[2],
                           d[e].fields,
                           MergeJsonFir(UserJson(e), FoundJson(w1, sid)))
        ELSE InsertElement(w1, ElClass[e], w1.ret[1], w1.ret[2],
                           d[e].fields), LAMBDA w2 :
    Let(IF sid # NoId THEN sid ELSE w2.ret, LAMBDA id :
    Let(ToExternalAspect(w2, d, e), LAMBDA w3 :
    Let(IF sid # NoId THEN MetaOf(w3, d, e) ELSE w3, LAMBDA w4 :
    Let(IF ~Ok(w4) THEN w4
        ELSE IF sid # NoId THEN UpdateExternalAspect(w4, w4.ret, w3.ret)
        ELSE InsertExternalAspect(w4, id, w3.ret), LAMBDA w5 :
    Let(IF d[e].aspects # "undefined"
        THEN DeleteStaleAspects(w5, id) ELSE w5, LAMBDA w6 :
    Let(InsertAspects(w6, id, DeclaredAspects(d[e].aspects)), LAMBDA w7 :
      IF ~Ok(w7) THEN w7 ELSE Ret(w7, id)))))))))

\* mergeJson, for jsonProperties of at most one user key ("none": undefined)
MergeJson(user, existing) ==
    IF existing = "none" THEN user
    ELSE IF user # "none" THEN user ELSE existing

\* Sync.mapModel; sid is the id to update, NoId for a new model
MapModel(w, d, g, sid) ==
    Let(ToModel(w, d, g), LAMBDA w1 :
    Let(IF ~Ok(w1) THEN w1
        ELSE IF sid # NoId
        THEN UpdateModel(w1, sid, w1.ret[2],
                         MergeJson(d[g].json, w1.md[sid].json))
        ELSE InsertModel(w1, w1.ret[1], w1.ret[2], d[g].json), LAMBDA w2 :
      IF ~Ok(w2) THEN w2 ELSE Ret(w2, IF sid # NoId THEN sid ELSE w2.ret)))

\* ------------------------------------------------------------------------
\* Sync: sync
\* ------------------------------------------------------------------------
\* the comparison of Sync.changed letting two checksums decide before the
\* versions
IsChangedChecksumFirst(aspect, meta) ==
    IF aspect.checksum # "none" /\ meta.checksum # "none"
    THEN IF aspect.checksum # meta.checksum THEN "changed" ELSE "unchanged"
    ELSE IF /\ aspect.version # "none"
            /\ meta.version # "none"
            /\ aspect.version # meta.version
         THEN "changed" ELSE "unchanged"

\* the comparison of Sync.changed without the checksums
IsChangedVersionOnly(aspect, meta) ==
    IF /\ aspect.version # "none"
       /\ meta.version # "none"
       /\ aspect.version # meta.version
    THEN "changed" ELSE "unchanged"

\* the comparison of Sync.changed
IsChanged(aspect, meta) ==
    LET versionChange == /\ aspect.version # "none"
                         /\ meta.version # "none"
                         /\ aspect.version # meta.version
        checksumChange == /\ aspect.checksum # "none"
                          /\ meta.checksum # "none"
                          /\ aspect.checksum # meta.checksum
    IN IF versionChange \/ checksumChange THEN "changed" ELSE "unchanged"

\* Sync.changed; ret is 'changed' or 'unchanged'
Changed(w, d, e) ==
    IF ~Ok(w) THEN w
    ELSE IF e = "root subject" THEN Ret(w, "unchanged")
    ELSE
      Let(Put(w, d, e), LAMBDA w1 :
      Let(MetaOf(w1, d, e), LAMBDA w2 :
        IF ~Ok(w2) THEN w2
        ELSE IF w2.ret = NoId
        THEN Fail(w2, "fatal: element was put and must have an aspect")
        ELSE Ret(w2, IsChanged(w2.el[w2.ret].meta[1], d[e]))))

\* Sync.syncElement updating whatever Sync.changed says
SyncElementAlways(w, d, e) ==
    Let(Put(w, d, e), LAMBDA w1 :
    Let(Changed(w1, d, e), LAMBDA w2 :
      IF ~Ok(w2) THEN w2
      ELSE Let(MapElement(w2, d, e, w1.ret), LAMBDA w3 : Ret(w3, w2.ret))))

\* Sync.syncElement
SyncElement(w, d, e) ==
    Let(Put(w, d, e), LAMBDA w1 :
    Let(Changed(w1, d, e), LAMBDA w2 :
      IF ~Ok(w2) THEN w2
      ELSE IF w2.ret = "changed"
      THEN Let(MapElement(w2, d, e, w1.ret), LAMBDA w3 : Ret(w3, "changed"))
      ELSE w2))

\* Sync.syncModel without the comparison of the modeled element
SyncModelPutOnly(w, d, g) ==
    Let(PutModel(w, d, g), LAMBDA w1 :
      IF ~Ok(w1) THEN w1 ELSE Ret(w1, "unchanged"))

\* Sync.syncModel updating the modeled element along with the model
SyncModelAndElement(w, d, g) ==
    Let(PutModel(w, d, g), LAMBDA w1 :
    Let(Changed(w1, d, ModeledElement[g]), LAMBDA w2 :
      IF ~Ok(w2) THEN w2
      ELSE IF w2.ret = "changed"
      THEN Let(MapModel(w2, d, g, w1.ret), LAMBDA w3 :
           Let(MapElement(w3, d, ModeledElement[g], w1.ret), LAMBDA w4 :
             Ret(w4, "changed")))
      ELSE w2))

\* Sync.syncModel
SyncModel(w, d, g) ==
    Let(PutModel(w, d, g), LAMBDA w1 :
    Let(Changed(w1, d, ModeledElement[g]), LAMBDA w2 :
      IF ~Ok(w2) THEN w2
      ELSE IF w2.ret = "changed"
      THEN Let(MapModel(w2, d, g, w1.ret), LAMBDA w3 : Ret(w3, "changed"))
      ELSE w2))

\* Sync.sync
SyncNode(w, d, n) ==
    IF n \in Sentinels THEN Ret(w, "unchanged")
    ELSE IF n \in ElementNodes THEN SyncElement(w, d, n)
    ELSE SyncModel(w, d, n)


\* ------------------------------------------------------------------------
\* Sync: tags in the fir namespace of jsonProperties
\* ------------------------------------------------------------------------
\* Sync.readTag by id; ret is [success, payload]
ReadTagId(w, id, key) ==
    IF ~Ok(w) THEN w
    ELSE IF id \notin DOMAIN w.el THEN Fail(w, "store: no element")
    ELSE IF ~w.el[id].fir THEN Ret(w, [success |-> FALSE, payload |-> NullTag])
    ELSE IF key # "" /\ key \notin DOMAIN w.el[id].tags
    THEN Ret(w, [success |-> FALSE, payload |-> NullTag])
    ELSE Ret(w, [success |-> TRUE,
                 payload |-> IF key # "" THEN w.el[id].tags[key] ELSE NullTag])

\* Sync.readTag of a node: put gives the id
ReadTag(w, d, e, key) ==
    IF ~Ok(w) THEN w
    ELSE IF e = "root subject" THEN Fail(w, "fatal: cannot tag root subject")
    ELSE Let(Put(w, d, e), LAMBDA w1 : ReadTagId(w1, w1.ret, key))

\* Sync.tag
Tag(w, d, e, key, value) ==
    IF ~Ok(w) THEN w
    ELSE IF e = "root subject" THEN Fail(w, "fatal: cannot tag root subject")
    ELSE
      Let(Put(w, d, e), LAMBDA w1 :
      Let(Put(w1, d, e), LAMBDA w2 :
      Let(Put(w2, d, ElModel[e]), LAMBDA w3 :
        IF ~Ok(w3) THEN w3
        ELSE IF w1.ret \notin DOMAIN w3.el THEN Fail(w3, "store: no element")
        ELSE UpdateJson(w3, w1.ret, (key :> value) @@ w3.el[w1.ret].tags))))

\* Sync.cutTag by id, for a set of keys
CutTagId(w, id, keys) ==
    IF ~Ok(w) THEN w
    ELSE IF id \notin DOMAIN w.el THEN Fail(w, "store: no element")
    ELSE IF ~w.el[id].fir THEN w
    ELSE UpdateJson(w, id, [a \in DOMAIN w.el[id].tags \ keys |->
                               w.el[id].tags[a]])

\* ------------------------------------------------------------------------
\* Sync: put of a link-table relationship
\* ------------------------------------------------------------------------
\* imodel.relationships.insertInstance taking a relationship of any class
InsertInstanceAnyClass(w, cls, source, target) ==
    IF ~Ok(w) THEN w
    ELSE IF source \notin DOMAIN w.el \/ target \notin DOMAIN w.el
            \/ \E r \in w.rel : r.fullClass = cls /\ r.source = source
                                /\ r.target = target
    THEN Fail(w, "store: invalid relationship")
    ELSE [w EXCEPT !.rel = @ \cup {[id |-> w.nextRel, fullClass |-> cls,
                                    source |-> source, target |-> target]},
                   !.nextRel = @ + 1, !.writes = @ + 1, !.ret = w.nextRel]

\* imodel.relationships.insertInstance: only a subclass of
\* ElementRefersToElements is a link-table relationship
InsertInstance(w, cls, source, target) ==
    IF ~Ok(w) THEN w
    ELSE IF cls # "refers"
    THEN Fail(w, "store: should be subclass of BisCore:ElementRefersToElements")
    ELSE IF source \notin DOMAIN w.el \/ target \notin DOMAIN w.el
            \/ \E r \in w.rel : r.fullClass = cls /\ r.source = source
                                /\ r.target = target
    THEN Fail(w, "store: invalid relationship")
    ELSE [w EXCEPT !.rel = @ \cup {[id |-> w.nextRel, fullClass |-> cls,
                                    source |-> source, target |-> target]},
                   !.nextRel = @ + 1, !.writes = @ + 1, !.ret = w.nextRel]

\* imodel.relationships.deleteInstance
DeleteInstance(w, old) ==
    IF ~Ok(w) THEN w
    ELSE IF old \notin w.rel THEN Fail(w, "store: no relationship")
    ELSE [w EXCEPT !.rel = @ \ {old}, !.writes = @ + 1]

\* toRelationship; ret is <<source id, target id>>
ToRelationship(w, d, ends) ==
    Let(Put(w, d, ends.source), LAMBDA w1 :
    Let(Put(w1, d, ends.target), LAMBDA w2 :
      IF ~Ok(w2) THEN w2 ELSE Ret(w2, <<w1.ret, w2.ret>>)))

\* Sync.mapRelationship; old is the instance to replace, NullTag for a new one
MapRelationship(w, d, r, ends, old) ==
    Let(ToRelationship(w, d, ends), LAMBDA w1 :
      IF ~Ok(w1) THEN w1
      ELSE Let(IF old # NullTag THEN DeleteInstance(w1, old) ELSE w1,
               LAMBDA w2 :
             InsertInstance(w2, RelClass[r], w1.ret[1], w1.ret[2])))

\* the test of putRelationship for 'no change has been made'
SameRelationship(fullClass, sourceId, targetId, found) ==
    fullClass = found.fullClass /\ sourceId = found.source
    /\ targetId = found.source

\* putRelationship when the ledger has no entry for the anchor
PutNewRelationship(w, d, r, ends, sourceId, targetId) ==
    Let(MapRelationship(w, d, r, ends, NullTag), LAMBDA a1 :
    Let(Tag(a1, d, ends.source, RelAnchor[r], NullTag), LAMBDA a2 :
    Let(Tag(a2, d, ends.target, RelAnchor[r], NullTag), LAMBDA a3 :
    Let(Tag(a3, d, "B", RelAnchor[r],
            [id |-> a1.ret, fullClass |-> RelClass[r],
             source |-> sourceId, target |-> targetId]), LAMBDA a4 :
      IF ~Ok(a4) THEN a4 ELSE Ret(a4, a1.ret)))))

\* the cutTag and tag of putRelationship for an end that has moved
MoveTag(w, d, old, e, anchor) ==
    Let(CutTagId(w, old, {anchor}), LAMBDA w1 : Tag(w1, d, e, anchor, NullTag))

\* putRelationship when the ledger entry found differs from the relationship
PutMovedRelationship(w, d, r, ends, sourceId, targetId, found) ==
    Let(IF sourceId # found.source
        THEN MoveTag(w, d, found.source, ends.source, RelAnchor[r])
        ELSE w, LAMBDA b1 :
    Let(IF targetId # found.target
        THEN MoveTag(b1, d, found.target, ends.target, RelAnchor[r])
        ELSE b1, LAMBDA b2 :
    Let(MapRelationship(b2, d, r, ends, found), LAMBDA b3 :
    Let(Tag(b3, d, "B", RelAnchor[r],
            [id |-> b3.ret, fullClass |-> RelClass[r],
             source |-> sourceId, target |-> targetId]), LAMBDA b4 :
      IF ~Ok(b4) THEN b4 ELSE Ret(b4, b3.ret)))))

\* Sync.putRelationship
PutRelationship(w, d, r, ends) ==
    Let(ReadTag(w, d, "B", RelAnchor[r]), LAMBDA w1 :
    Let(Put(w1, d, ends.source), LAMBDA w2 :
    Let(Put(w2, d, ends.target), LAMBDA w3 :
      IF ~Ok(w3) THEN w3
      ELSE IF ~w1.ret.success
      THEN PutNewRelationship(w3, d, r, ends, w2.ret, w3.ret)
      ELSE IF SameRelationship(RelClass[r], w2.ret, w3.ret, w1.ret.payload)
      THEN Ret(w3, w1.ret.payload.id)
      ELSE PutMovedRelationship(w3, d, r, ends, w2.ret, w3.ret,
                                w1.ret.payload))))


\* ------------------------------------------------------------------------
\* Sync: trim
\* ------------------------------------------------------------------------
\* the loop of trimRelationship over the anchors found on the element
RECURSIVE TrimAnchors(_, _, _)
TrimAnchors(w, d, anchors) ==
    IF ~Ok(w) \/ anchors = {} THEN w
    ELSE
      Let(CHOOSE a \in anchors : TRUE, LAMBDA anchor :
      Let(ReadTag(w, d, "B", anchor), LAMBDA w1 :
        IF ~Ok(w1) THEN w1
        ELSE IF ~w1.ret.success
        THEN Fail(w1, "fatal: read relationship anchor in element but not in store")
        ELSE
          Let(Put(w1, d, "B"), LAMBDA w3 :
          Let(CutTagId(w3, w3.ret, {anchor}), LAMBDA w4 :
          Let(CutTagId(w4, w1.ret.payload.target, {anchor}), LAMBDA w5 :
          Let(anchors \ {anchor}, LAMBDA rest :
            TrimAnchors(w5, d, rest)))))))

\* Sync.trimRelationship cutting the tags of the element and leaving the
\* ledger as it is
TrimRelationshipTagsOnly(w, d, id) ==
    Let(ReadTagId(w, id, ""), LAMBDA w1 :
      IF ~Ok(w1) THEN w1
      ELSE IF ~w1.ret.success \/ DOMAIN w.el[id].tags = {} THEN w1
      ELSE CutTagId(w1, id, DOMAIN w.el[id].tags))

\* Sync.trimRelationship
TrimRelationship(w, d, id) ==
    Let(ReadTagId(w, id, ""), LAMBDA w1 :
      IF ~Ok(w1) THEN w1
      ELSE IF ~w1.ret.success \/ DOMAIN w.el[id].tags = {} THEN w1
      ELSE Let(CutTagId(w1, id, DOMAIN w.el[id].tags), LAMBDA w2 :
             TrimAnchors(w2, d, DOMAIN w.el[id].tags)))

\* imodel.elements.getAspects(id).length
CountAspects(w, id) == Len(w.el[id].meta) + Cardinality(w.el[id].aspects)

\* imodel.elements.deleteDefinitionElements([id]); ret is the number of
\* elements the store kept because they are in use
DeleteDefinitionElements(w, id) ==
    IF ~Ok(w) THEN w
    ELSE IF id \in w.inUse
    THEN Ret([w EXCEPT !.log = Append(@, RefusedElement(w, id))], 1)
    ELSE Let(Descendants(w, {id}), LAMBDA D :
         Let(RemoveElements([w EXCEPT !.log =
                                Append(@, DeletedElement(w, id, D))], D),
             LAMBDA w1 : Ret(w1, 0)))

\* the deletion of an eligible branch in trimTree, with the modeled element
\* deleted before its model
DeleteBranchElementFirst(w, d, b, model) ==
    IF model = NoId
    THEN Let(TrimRelationship(w, d, b), LAMBDA w1 :
           IF ~Ok(w1) THEN w1
           ELSE Let([w1 EXCEPT !.cntE = @ + 1,
                               !.cntA = @ + CountAspects(w1, b)], LAMBDA w2 :
                  DeleteElement(w2, b)))
    ELSE Let(DeleteElement([w EXCEPT !.cntE = @ + 1, !.cntM = @ + 1,
                                     !.cntA = @ + CountAspects(w, b)], b),
             LAMBDA w1 : DeleteModel(w1, model))

\* the deletion of an eligible branch in trimTree, with a refusal of the store
\* raised as an error
DeleteBranchRefusalRaises(w, d, b, model) ==
    IF model = NoId
    THEN Let(TrimRelationship(w, d, b), LAMBDA w1 :
           IF ~Ok(w1) THEN w1
           ELSE IF IsDefinition(w1.el[b].cls)
           THEN Let(DeleteDefinitionElements(w1, b), LAMBDA def :
                  IF ~Ok(def) THEN def
                  ELSE IF def.ret # 0 THEN Fail(def, "store: in use")
                  ELSE [def EXCEPT
                          !.cntE = @ + (IF w1.el[b].cls = "category"
                                        THEN 2 ELSE 1),
                          !.cntA = @ + CountAspects(w1, b)])
           ELSE Let([w1 EXCEPT !.cntE = @ + 1,
                               !.cntA = @ + CountAspects(w1, b)], LAMBDA w2 :
                  DeleteElement(w2, b)))
    ELSE Let(DeleteModel([w EXCEPT !.cntE = @ + 1, !.cntM = @ + 1,
                                   !.cntA = @ + CountAspects(w, b)], model),
             LAMBDA w1 : DeleteElement(w1, b))

\* the deletion of an eligible branch in trimTree
DeleteBranch(w, d, b, model) ==
    IF model = NoId
    THEN Let(TrimRelationship(w, d, b), LAMBDA w1 :
           IF ~Ok(w1) THEN w1
           ELSE IF IsDefinition(w1.el[b].cls)
           THEN Let(DeleteDefinitionElements(w1, b), LAMBDA def :
                  IF ~Ok(def) \/ def.ret # 0 THEN def
                  ELSE [def EXCEPT
                          !.cntE = @ + (IF w1.el[b].cls = "category"
                                        THEN 2 ELSE 1),
                          !.cntA = @ + CountAspects(w1, b)])
           ELSE Let([w1 EXCEPT !.cntE = @ + 1,
                               !.cntA = @ + CountAspects(w1, b)], LAMBDA w2 :
                  DeleteElement(w2, b)))
    ELSE Let(DeleteModel([w EXCEPT !.cntE = @ + 1, !.cntM = @ + 1,
                                   !.cntA = @ + CountAspects(w, b)], model),
             LAMBDA w1 : DeleteElement(w1, b))

RECURSIVE TrimTree(_, _, _)
RECURSIVE TrimChildren(_, _, _)

\* children.forEach(child => trimTree(child)), in the order of the query
TrimChildren(w, d, children) ==
    IF ~Ok(w) \/ children = <<>> THEN w
    ELSE Let(TrimTree(w, d, Head(children)), LAMBDA w1 :
         Let(Tail(children), LAMBDA rest : TrimChildren(w1, d, rest)))

\* the children trimTree recurses into and counts afterwards
ChildrenOfBranch(w, b, model) ==
    IF model = NoId THEN ChildrenOfElement(w, b) ELSE ChildrenOfModel(w, model)

\* the eligibility test of trimTree without the isManaged query
EligibleUnmanaged(w, b, model) ==
    /\ b \notin w.touched
    /\ \/ ChildrenOfBranch(w, b, model) = {}
       \/ /\ w.el[b].cls = "category"
          /\ Cardinality(ChildrenOfBranch(w, b, model)) = 1

\* the eligibility test of trimTree
Eligible(w, b, model) ==
    LET managed == IsManaged(w, b)
        seen == b \in w.touched
        subcategoryWithDefault ==
            /\ w.el[b].cls = "category"
            /\ Cardinality(ChildrenOfBranch(w, b, model)) = 1
        noChildren == ChildrenOfBranch(w, b, model) = {}
                      \/ subcategoryWithDefault
    IN managed /\ ~seen /\ noChildren

\* Sync.trimTree testing the branch against the children it had before they
\* were trimmed
TrimTreeEligibleBefore(w, d, b) ==
    IF ~Ok(w) THEN w
    ELSE
      Let(TryGetSubModel(w, b), LAMBDA model :
      Let(SortedSeq(ChildrenOfBranch(w, b, model)), LAMBDA children :
      Let(TrimChildren(w, d, children), LAMBDA w1 :
        IF ~Ok(w1) THEN w1
        ELSE IF b \notin DOMAIN w1.el THEN Fail(w1, "store: no element")
        ELSE IF Eligible(w, b, model) THEN DeleteBranch(w1, d, b, model)
        ELSE w1)))

\* Sync.trimTree
TrimTree(w, d, b) ==
    IF ~Ok(w) THEN w
    ELSE
      Let(TryGetSubModel(w, b), LAMBDA model :
      Let(SortedSeq(ChildrenOfBranch(w, b, model)), LAMBDA children :
      Let(TrimChildren(w, d, children), LAMBDA w1 :
        IF ~Ok(w1) THEN w1
        ELSE IF b \notin DOMAIN w1.el THEN Fail(w1, "store: no element")
        ELSE IF Eligible(w1, b, model) THEN DeleteBranch(w1, d, b, model)
        ELSE w1)))

\* Sync.trim resolving its argument without marking it as touched
TrimUntouched(w, d, n) ==
    Let(Put(w, d, n), LAMBDA w1 :
    Let(TrimTree([w1 EXCEPT !.touched = w.touched], d, w1.ret), LAMBDA w2 :
      IF ~Ok(w2) THEN w2
      ELSE Ret(w2, [deletedElements |-> w2.cntE, deletedModels |-> w2.cntM,
                    deletedAspects |-> w2.cntA])))

\* Sync.trim marking the children its walk left under the branch as seen
TrimTouchingWalk(w, d, n) ==
    Let(Put(w, d, n), LAMBDA w1 :
    Let(TrimTree(w1, d, w1.ret), LAMBDA w2 :
      IF ~Ok(w2) THEN w2
      ELSE Ret([w2 EXCEPT !.touched = @ \cup
                  ChildrenOfBranch(w2, w1.ret, TryGetSubModel(w2, w1.ret))],
               [deletedElements |-> w2.cntE, deletedModels |-> w2.cntM,
                deletedAspects |-> w2.cntA])))

\* Sync.trim
Trim(w, d, n) ==
    Let(Put(w, d, n), LAMBDA w1 :
    Let(TrimTree(w1, d, w1.ret), LAMBDA w2 :
      IF ~Ok(w2) THEN w2
      ELSE Ret(w2, [deletedElements |-> w2.cntE, deletedModels |-> w2.cntM,
                    deletedAspects |-> w2.cntA])))

\* the constructor of Sync going on with the touched set of the session
\* before it
NewSyncKeepingTouched(w, d) == SyncNode(w, d, "B")

\* the constructor of Sync: a new, empty touched set, then sync(this.store)
NewSync(w, d) ==
    Let([w EXCEPT !.touched = {}], LAMBDA w0 : SyncNode(w0, d, "B"))


\* ------------------------------------------------------------------------
\* Calls on the session, one action each
\* ------------------------------------------------------------------------
Current == World(elements, models, rels, nextId, nextRel, inUse, touched)

\* the caller's description at the start: test/sync.test.ts meta(), version 1
InitDesc ==
    [n \in ElementNodes \cup ModelNodes |->
       IF n \in ElementNodes
       THEN [version |-> "v1", checksum |-> "none", fields |-> "f1",
             aspects |-> "undefined"]
       ELSE [json |-> "none"]]

InitEnds == [r \in RelNodes |-> [source |-> "X", target |-> "Y"]]

\* Sync.meta without its puts: the id under which node e is persisted, NoId
\* when it, or an element of its scope chain, is not
RECURSIVE IdOf(_, _)
IdOf(el, e) ==
    IF e = "root subject" THEN RootId
    ELSE IF e \notin Rooted THEN NoId
    ELSE Let(IdOf(el, MetaScope[e]), LAMBDA scope :
           IF scope = NoId THEN NoId
           ELSE FindBySource([el |-> el], scope, MetaKind[e], MetaAnchor[e]))

NoRow == [cls |-> "none"]

\* readTag(this.store, anchor) without its puts: the ledger entry of the
\* anchor on the bookkeeping element, NullTag when there is none
Ledger(el, anchor) ==
    Let(IdOf(el, "B"), LAMBDA store :
      IF store # NoId /\ anchor \in DOMAIN el[store].tags
      THEN el[store].tags[anchor] ELSE NullTag)

\* the anchors the caller's relationships use
Anchors == {RelAnchor[r] : r \in RelNodes}

\* the anchors in the ledger of el whose relationship has an end in D
Tracked(el, D) ==
    {a \in Anchors : /\ Ledger(el, a) # NullTag
                     /\ {Ledger(el, a).source, Ledger(el, a).target} \cap D
                           # {}}

\* the elements that carry the presence tag of the anchor
Tagged(el, anchor) ==
    {id \in DOMAIN el \ {IdOf(el, "B")} : anchor \in DOMAIN el[id].tags}

NoTrim == [deletedElements |-> 0, deletedModels |-> 0, deletedAspects |-> 0]

\* what a call did, as the caller and the store's log see it: ret is the id
\* a put returned, change what Sync.changed told sync, trim what trim
\* returned; preId and pre are the id and the row of the element node before
\* the call, again says that the call before it was the same call, which
\* returned prevRet and (prevNew) inserted something; log is what the call
\* asked the store to delete, in order; preRel is the ledger
\* entry of the relationship node before the call; when the call is the sync
\* of a model and the call before it the sync of its modeled element, or the
\* other way round, prevOp, prevNode and prevChange are that call; for the
\* sync of a model node, ofId and of are the id and the row of its modeled
\* element before the call and preJson the jsonProperties of the model; cut
\* holds the anchors that were in the ledger before a trim with an end the
\* trim deleted, preCut their ledger entries, and prevCut, for the put of a
\* relationship, the cut of the trim right before it
Outcome(w, op, n, before, el) ==
    Let(IF n \in ElementNodes THEN IdOf(el, n) ELSE NoId, LAMBDA id :
    Let(before.op = op /\ before.node = n /\ before.err = "none",
        LAMBDA again :
    Let(op = "sync" /\ n \in ModelNodes, LAMBDA group :
    Let(/\ op = "sync" /\ before.op = "sync"
        /\ \/ n \in ModelNodes /\ before.node = ModeledElement[n]
           \/ before.node \in ModelNodes
              /\ n = ModeledElement[before.node],
        LAMBDA paired :
       [op |-> op, node |-> n, err |-> w.err,
        ret |-> IF op = "put" /\ Ok(w) THEN w.ret ELSE NoId,
        change |-> IF op \in {"sync", "new"} /\ Ok(w) THEN w.ret ELSE "none",
        trim |-> IF op = "trim" /\ Ok(w) THEN w.ret ELSE NoTrim,
        writes |-> w.writes, newEl |-> w.newEl, newMd |-> w.newMd,
        delEl |-> w.delEl, delMd |-> w.delMd, log |-> w.log,
        preId |-> id, pre |-> IF id = NoId THEN NoRow ELSE el[id],
        again |-> again, prevRet |-> IF again THEN before.ret ELSE NoId,
        prevNew |-> again /\ before.newEl \cup before.newMd # {},
        prevDel |-> again /\ op = "trim" /\ before.delEl # {},
        preRel |-> IF n \in RelNodes THEN Ledger(el, RelAnchor[n])
                   ELSE NullTag,
        ofId |-> IF group THEN IdOf(el, ModeledElement[n]) ELSE NoId,
        of |-> IF group /\ IdOf(el, ModeledElement[n]) # NoId
               THEN el[IdOf(el, ModeledElement[n])] ELSE NoRow,
        preJson |-> IF group /\ IdOf(el, ModeledElement[n]) \in DOMAIN models
                    THEN models[IdOf(el, ModeledElement[n])].json
                    ELSE "none",
        added |-> IF op = "trim" THEN w.touched \ touched ELSE {},
        cut |-> IF op = "trim" THEN Tracked(el, w.delEl) ELSE {},
        preCut |-> [a \in IF op = "trim" THEN Tracked(el, w.delEl) ELSE {}
                      |-> Ledger(el, a)],
        prevCut |-> IF op = "put" /\ n \in RelNodes /\ before.op = "trim"
                    THEN before.cut ELSE {},
        prevOp |-> IF paired THEN before.op ELSE "none",
        prevNode |-> IF paired THEN before.node ELSE "none",
        prevChange |-> IF paired /\ before.err = "none"
                       THEN before.change ELSE "none"]))))

NoCall == [op |-> "none", node |-> "none", err |-> "none", ret |-> NoId,
           newEl |-> {}, newMd |-> {}]

\* the state after a call that left the world w
Commit(w, op, n) ==
    /\ w.next <= MaxId + 1
    /\ w.nextRel <= MaxRel + 1
    /\ elements' = w.el
    /\ models' = w.md
    /\ rels' = w.rel
    /\ nextId' = w.next
    /\ nextRel' = w.nextRel
    /\ inUse' = w.inUse
    /\ touched' = w.touched
    /\ last' = Outcome(w, op, n, last, elements)

\* an empty iModel, and the first session constructed on it
Init ==
    \E w \in {NewSync(World(RootId :> RootRow, RepoId :> RepoRow, {}, 2, 1,
                            {}, {}), InitDesc)} :
       /\ elements = w.el
       /\ models = w.md
       /\ rels = w.rel
       /\ nextId = w.next
       /\ nextRel = w.nextRel
       /\ inUse = w.inUse
       /\ touched = w.touched
       /\ desc = InitDesc
       /\ relEnds = InitEnds
       /\ last = Outcome(w, "new", "B", NoCall, RootId :> RootRow)

\* fir.put(node)
CallPut(n) ==
    /\ \E w \in {Put(Current, desc, n)} : Commit(w, "put", n)
    /\ UNCHANGED <<desc, relEnds>>

\* fir.put(relationship)
CallPutRel(r) ==
    /\ \E w \in {PutRelationship(Current, desc, r, relEnds[r])} :
          Commit(w, "put", r)
    /\ UNCHANGED <<desc, relEnds>>

\* fir.sync(node)
CallSync(n) ==
    /\ \E w \in {SyncNode(Current, desc, n)} : Commit(w, "sync", n)
    /\ UNCHANGED <<desc, relEnds>>

\* fir.trim(node)
CallTrim(n) ==
    /\ \E w \in {Trim(Current, desc, n)} : Commit(w, "trim", n)
    /\ UNCHANGED <<desc, relEnds>>

\* fir = new Sync(imodel)
CallNew ==
    /\ \E w \in {NewSync(Current, desc)} : Commit(w, "new", "B")
    /\ UNCHANGED <<desc, relEnds>>

\* The runs of a connector: each constructs a session, makes its calls in
\* order and ends with a trim
Runs ==
    [tree |-> <<[op |-> "sync", node |-> "G"], [op |-> "sync", node |-> "X"],
                [op |-> "sync", node |-> "K"],
                [op |-> "trim", node |-> "root subject"]>>,
     leaf |-> <<[op |-> "sync", node |-> "X"], [op |-> "trim", node |-> "P"]>>,
     child |-> <<[op |-> "put", node |-> "K"],
                 [op |-> "trim", node |-> "root subject"]>>,
     pair |-> <<[op |-> "sync", node |-> "P"], [op |-> "sync", node |-> "Y"],
                [op |-> "sync", node |-> "G"], [op |-> "trim", node |-> "G"]>>,
     link |-> <<[op |-> "sync", node |-> "X"], [op |-> "sync", node |-> "Y"],
                [op |-> "put", node |-> "r"], [op |-> "trim", node |-> "P"]>>,
     loop |-> <<[op |-> "put", node |-> "r"],
                [op |-> "trim", node |-> "root subject"]>>]

\* one call of a run on the session
RunCall(w, d, ends, c) ==
    IF c.op = "sync" THEN SyncNode(w, d, c.node)
    ELSE IF c.op = "trim" THEN Trim(w, d, c.node)
    ELSE IF c.node \in RelNodes
    THEN PutRelationship(w, d, c.node, ends[c.node])
    ELSE Put(w, d, c.node)

\* the calls of a run in order; a call that raises ends the run
RECURSIVE RunCalls(_, _, _, _)
RunCalls(w, d, ends, calls) ==
    IF ~Ok(w) \/ calls = <<>> THEN w
    ELSE Let(RunCall(w, d, ends, Head(calls)), LAMBDA w1 :
         Let(Tail(calls), LAMBDA rest : RunCalls(w1, d, ends, rest)))

\* a whole run of the connector in a session of its own
CallRun(name) ==
    /\ \E w \in {RunCalls(NewSync(Current, desc), desc, relEnds,
                           Runs[name])} :
          Commit(w, "run", name)
    /\ UNCHANGED <<desc, relEnds>>

\* the caller edits the description of an element between calls
Edit(n, v, c, f, a) ==
    /\ desc' = [desc EXCEPT ![n] = [version |-> v, checksum |-> c,
                                    fields |-> f, aspects |-> a]]
    /\ desc'[n] # desc[n]
    /\ last' = [last EXCEPT !.op = "edit", !.node = n, !.again = FALSE,
                          !.prevNew = FALSE, !.prevDel = FALSE]
    /\ UNCHANGED <<elements, models, rels, nextId, nextRel, inUse, touched,
                   relEnds>>

\* the caller edits the jsonProperties of a model between calls
EditModel(g, j) ==
    /\ desc' = [desc EXCEPT ![g] = [json |-> j]]
    /\ desc'[g] # desc[g]
    /\ last' = [NoCall EXCEPT !.op = "edit", !.node = g]
    /\ UNCHANGED <<elements, models, rels, nextId, nextRel, inUse, touched,
                   relEnds>>

\* the caller gives a relationship another source or target between calls
Retarget(r, s, t) ==
    /\ relEnds' = [relEnds EXCEPT ![r] = [source |-> s, target |-> t]]
    /\ relEnds'[r] # relEnds[r]
    /\ last' = [NoCall EXCEPT !.op = "edit", !.node = r]
    /\ UNCHANGED <<elements, models, rels, nextId, nextRel, inUse, touched,
                   desc>>

\* other data of the iModel starts or stops using a definition element
UseDefinition(id) ==
    /\ id \in DOMAIN elements
    /\ IsDefinition(elements[id].cls)
    /\ Len(elements[id].meta) > 0
    /\ inUse' = IF id \in inUse THEN inUse \ {id} ELSE inUse \cup {id}
    /\ last' = [last EXCEPT !.op = "use", !.node = "none", !.again = FALSE,
                          !.prevNew = FALSE, !.prevDel = FALSE]
    /\ UNCHANGED <<elements, models, rels, nextId, nextRel, touched, desc,
                   relEnds>>

\* another writer of the iModel inserts an element that fir does not manage
\* (no external source aspect), top-level in a model or as a child
InsertForeign(m, p) ==
    /\ Cardinality({id \in DOMAIN elements :
                      elements[id].fields = "foreign"}) < MaxForeign
    /\ m \in DOMAIN models
    /\ p # NoId => (p \in DOMAIN elements /\ elements[p].model = m)
    /\ \E w \in {InsertElement(Current, "plain", m, p, "foreign")} :
          Commit(w, "foreign", "none")
    /\ UNCHANGED <<desc, relEnds>>

\* A tree of plain elements: the partition P, its model G with X and Y, and
\* K parented under P
TreeNodes == {"P", "X", "Y", "K", "G"}

Next ==
    \/ \E n \in TreeNodes : CallPut(n)
    \/ \E n \in {"P", "G", "X"} : CallSync(n)
    \/ \E n \in {"P", "G", "root subject"} : CallTrim(n)
    \/ CallNew

Spec == Init /\ [][Next]_vars

\* A category C in the model G, which other data may use
NextDef ==
    \/ \E n \in {"C", "X"} : CallPut(n)
    \/ \E n \in {"C", "G"} : CallSync(n)
    \/ \E n \in {"P", "G", "root subject"} : CallTrim(n)
    \/ CallNew
    \/ \E id \in DOMAIN elements : UseDefinition(id)

SpecDef == Init /\ [][NextDef]_vars

\* A link-table relationship between X and Y
NextRel ==
    \/ \E n \in {"X", "Y"} : CallPut(n)
    \/ CallPutRel("r")
    \/ \E n \in {"P", "X"} : CallTrim(n)
    \/ CallNew

SpecRel == Init /\ [][NextRel]_vars

\* The relationship r between X, Y and K, whose ends the caller changes
MoveNodes == {"X", "Y", "K"}

NextMove ==
    \/ CallPutRel("r")
    \/ \E s \in MoveNodes, t \in MoveNodes : Retarget("r", s, t)
    \/ CallNew

SpecMove == Init /\ [][NextMove]_vars

\* The relationship between X and Y, put as a link of class
\* ElementRefersToElements (r) and of class ElementOwnsChildElements (o)
NextOwn ==
    \/ \E r \in RelNodes : CallPutRel(r)
    \/ \E r \in RelNodes, s \in {"X", "Y"}, t \in {"X", "Y"} :
          Retarget(r, s, t)
    \/ CallNew

SpecOwn == Init /\ [][NextOwn]_vars

\* The tree and the category next to elements of another writer
NextForeign ==
    \/ \E n \in {"X", "K", "C"} : CallPut(n)
    \/ \E n \in {"P", "root subject"} : CallTrim(n)
    \/ CallNew
    \/ \E m \in DOMAIN models, p \in {NoId} \cup DOMAIN elements :
          InsertForeign(m, p)

SpecForeign == Init /\ [][NextForeign]_vars

\* One element, S, whose description the caller edits freely
NextSync ==
    \/ CallPut("S")
    \/ CallSync("S")
    \/ CallNew
    \/ \E v \in Versions, c \in Checksums, f \in FieldValues,
          a \in {"undefined", "a1"} : Edit("S", v, c, f, a)

SpecSync == Init /\ [][NextSync]_vars

\* The element Z in the model G, whose external source aspect names as its
\* source the element E of the same model
NextSource ==
    \/ \E n \in {"Z", "E"} : CallPut(n)
    \/ CallSync("Z")
    \/ \E n \in {"P", "root subject"} : CallTrim(n)
    \/ CallNew
    \/ \E v \in {"v1", "v2"} : Edit("Z", v, "none", "f1", "undefined")

SpecSource == Init /\ [][NextSource]_vars

\* The relationship r between X and Y, with the descriptions of X and of the
\* bookkeeping element edited by the caller
NextTagged ==
    \/ CallPutRel("r")
    \/ \E n \in {"X", "B"} : CallSync(n)
    \/ CallNew
    \/ \E n \in {"X", "B"}, v \in {"v1", "v2"} :
          Edit(n, v, "none", "f1", "undefined")

SpecTagged == Init /\ [][NextTagged]_vars

\* The relationship r with the category C as its target, which other data
\* may use
NextDefRel ==
    \/ CallPut("X")
    \/ CallPutRel("r")
    \/ Retarget("r", "X", "C")
    \/ \E n \in {"P", "B"} : CallTrim(n)
    \/ CallNew
    \/ \E id \in DOMAIN elements : UseDefinition(id)

SpecDefRel == Init /\ [][NextDefRel]_vars

\* The tree next to the nodes U and V, which are scoped to each other
NextCycle ==
    \/ \E n \in {"P", "X", "K", "G", "U", "V", "root subject"} : CallPut(n)
    \/ CallTrim("root subject")
    \/ CallNew

SpecCycle == Init /\ [][NextCycle]_vars

\* Runs of the connector on the same description, one after the other
NextRun == \E name \in DOMAIN Runs : CallRun(name)

SpecRun == Init /\ [][NextRun]_vars

\* The sentinels handed to put, sync and trim, next to P and its child K
NextSentinel ==
    \/ \E n \in {"P", "K"} \cup Sentinels : CallPut(n)
    \/ \E n \in {"P"} \cup Sentinels : CallSync(n)
    \/ \E n \in {"P"} \cup Sentinels : CallTrim(n)
    \/ CallNew

SpecSentinel == Init /\ [][NextSentinel]_vars

\* The partition P and its model G, both edited and synced by the caller
NextGroup ==
    \/ \E n \in {"P", "G"} : CallPut(n)
    \/ \E n \in {"P", "G"} : CallSync(n)
    \/ CallNew
    \/ \E v \in {"v1", "v2"}, f \in FieldValues :
          Edit("P", v, "none", f, "undefined")
    \/ \E j \in JsonValues : EditModel("G", j)

SpecGroup == Init /\ [][NextGroup]_vars


\* ------------------------------------------------------------------------
\* Properties
\* ------------------------------------------------------------------------
\* the external source aspect the element of the last call had before it
StoredMeta == last.pre.meta[1]

\* the last call was op on an element node that was persisted before it
OnPersisted(op) ==
    /\ last.op = op
    /\ last.node \in ElementNodes
    /\ last.pre # NoRow

\* both sides define a version and the versions differ
VersionDiffers ==
    /\ StoredMeta.version # "none"
    /\ desc[last.node].version # "none"
    /\ StoredMeta.version # desc[last.node].version

\* C1: a put of an element or group that repeats the call before it, in the
\* same session, returns the id that call returned and writes nothing: no
\* element, model or aspect is inserted.  A put inserts its element exactly
\* when the element was not persisted before it, so the node is inserted at
\* most once over the two calls.
C1_PutTwice ==
    /\ (last.op = "put" /\ last.node \in ElementNodes \cup ModelNodes
        /\ last.again)
         => /\ last.err = "none"
            /\ last.ret = last.prevRet
            /\ last.newEl = {}
            /\ last.newMd = {}
            /\ last.writes = 0
    /\ (last.op = "put" /\ last.node \in ElementNodes /\ last.err = "none")
         => (last.ret \in last.newEl <=> last.preId = NoId)

\* the second of two puts of the group G, the first of which inserted
C1_Witness ==
    /\ last.op = "put"
    /\ last.node = "G"
    /\ last.again
    /\ last.prevNew
    /\ last.ret \in DOMAIN models

\* C2: a put of an element that is already persisted changes nothing in the
\* store, whatever the description says: the element, its external source
\* aspect and its other aspects stay as they were, and nothing else is
\* written; the element is in the touched set afterwards.
C2_PutNeverUpdates ==
    [][(last'.op = "put" /\ last'.node \in ElementNodes
        /\ last'.pre # NoRow /\ last'.err = "none")
         => /\ UNCHANGED <<elements, models, rels>>
            /\ last'.ret = last'.preId
            /\ last'.ret \in touched']_vars

\* a put of S whose description differs from the stored element in its
\* fields, its version, its checksum and its aspects
C2_Witness ==
    /\ OnPersisted("put")
    /\ last.node = "S"
    /\ last.err = "none"
    /\ elements[last.ret].fields # desc["S"].fields
    /\ StoredMeta.version # desc["S"].version
    /\ StoredMeta.checksum # desc["S"].checksum
    /\ elements[last.ret].aspects # DeclaredAspects(desc["S"].aspects)

\* C3: a sync of a persisted element whose stored version and incoming
\* version are both defined and differ leaves the element under the same id,
\* with the incoming fields and the incoming version in its external source
\* aspect, and inserts no element.
C3_SyncUpdatesOnVersion ==
    (OnPersisted("sync") /\ VersionDiffers)
      => /\ last.err = "none"
         /\ last.newEl = {}
         /\ IdOf(elements, last.node) = last.preId
         /\ elements[last.preId].fields = desc[last.node].fields
         /\ elements[last.preId].meta[1].version = desc[last.node].version

\* S stored with v1 and f1, synced with v2 and f2
C3_Witness ==
    /\ OnPersisted("sync")
    /\ last.node = "S"
    /\ StoredMeta.version = "v1"
    /\ last.pre.fields = "f1"
    /\ desc["S"].version = "v2"
    /\ desc["S"].fields = "f2"

\* C4: a sync of a persisted element that Sync.changed reports unchanged
\* writes nothing: elements, aspects, models and relationships stay as they
\* were.
C4_SyncUnchangedWritesNothing ==
    [][(last'.op = "sync" /\ last'.node \in ElementNodes
        /\ last'.pre # NoRow /\ last'.change = "unchanged")
         => /\ UNCHANGED <<elements, models, rels>>
            /\ last'.writes = 0]_vars

\* a sync of S reported unchanged although the description has other fields
C4_Witness ==
    /\ OnPersisted("sync")
    /\ last.node = "S"
    /\ last.change = "unchanged"
    /\ last.pre.fields # desc["S"].fields
    /\ StoredMeta.version = desc["S"].version

\* C5: when the stored and the incoming external source aspect both define
\* a version and the versions differ, Sync.changed reports changed, whatever
\* the two checksums are.
C5_VersionDecides ==
    (OnPersisted("sync") /\ VersionDiffers) => last.change = "changed"

\* versions differ while both sides carry the same checksum
C5_Witness ==
    /\ OnPersisted("sync")
    /\ VersionDiffers
    /\ StoredMeta.checksum # "none"
    /\ StoredMeta.checksum = desc[last.node].checksum

\* C6, as stated: when the versions are both absent or equal and the stored
\* checksum is not the incoming checksum, Sync.changed reports changed.
C6_AsStated ==
    (/\ OnPersisted("sync")
     /\ StoredMeta.version = desc[last.node].version
     /\ StoredMeta.checksum # desc[last.node].checksum)
      => last.change = "changed"

\* C6, amended: when the versions do not decide (one is absent, or they are
\* equal) and both sides define a checksum and the checksums differ,
\* Sync.changed reports changed and sync updates the element.
C6_ChecksumDecides ==
    (/\ OnPersisted("sync")
     /\ ~VersionDiffers
     /\ StoredMeta.checksum # "none"
     /\ desc[last.node].checksum # "none"
     /\ StoredMeta.checksum # desc[last.node].checksum)
      => /\ last.change = "changed"
         /\ elements[last.preId].fields = desc[last.node].fields
         /\ elements[last.preId].meta[1].checksum = desc[last.node].checksum

\* equal versions, stored checksum c1, incoming checksum c2
C6_Witness ==
    /\ OnPersisted("sync")
    /\ StoredMeta.version = "v1"
    /\ desc[last.node].version = "v1"
    /\ StoredMeta.checksum = "c1"
    /\ desc[last.node].checksum = "c2"
    /\ last.change = "changed"

\* C7: every id of the touched set is the id of an element of the store,
\* after every call: trim deletes no element the session touched.
C7_TouchedSurvive == \A id \in touched : id \in DOMAIN elements

\* C8: after trim(n) the element of n is in the store, under the id it had
\* if it had one, and trim deleted neither it nor, when n is a group, the
\* model of its modeled element.
C8_TrimKeepsArgument ==
    /\ (last.op = "trim" /\ last.node \in ElementNodes)
         => /\ IdOf(elements, last.node) # NoId
            /\ last.preId \in {NoId, IdOf(elements, last.node)}
            /\ IdOf(elements, last.node) \notin last.delEl
    /\ (last.op = "trim" /\ last.node \in ModelNodes)
         => LET id == IdOf(elements, ModeledElement[last.node])
            IN /\ id # NoId
               /\ id \in DOMAIN models
               /\ id \notin last.delEl
               /\ id \notin last.delMd
    /\ (last.op = "trim" /\ last.node \in Sentinels)
         => RootId \in DOMAIN elements /\ RepoId \in DOMAIN models

\* a trim of the group G that deleted what the model of P held
C8_Witness ==
    /\ last.op = "trim"
    /\ last.node = "G"
    /\ last.err = "none"
    /\ last.delEl # {}
    /\ IdOf(elements, "P") \in DOMAIN models

\* an element whose model is the one the modeled element `parent` has
ChildIn(el, parent, x) ==
    /\ IdOf(el, x) # NoId
    /\ IdOf(el, parent) # NoId
    /\ el[IdOf(el, x)].model = IdOf(el, parent)

\* C9: when trim(P) is called while the leaves X and Y are in the model of
\* P, one of them touched in this session and the other not, the call
\* deletes the untouched one and keeps the touched one, P and the model of P.
C9_TrimDeletesUntouched ==
    [][(last'.op = "trim" /\ last'.node = "P")
         => \A x, y \in {"X", "Y"} :
              (/\ ChildIn(elements, "P", x)
               /\ ChildIn(elements, "P", y)
               /\ IdOf(elements, x) \notin touched
               /\ IdOf(elements, y) \in touched)
                => /\ IdOf(elements, x) \notin DOMAIN elements'
                   /\ IdOf(elements, y) \in DOMAIN elements'
                   /\ IdOf(elements, "P") \in DOMAIN elements'
                   /\ IdOf(elements, "P") \in DOMAIN models']_vars

\* C10: an element without an external source aspect that is in the store
\* before a trim is in the store after it.
C10_TrimKeepsUnmanaged ==
    [][last'.op = "trim"
         => \A id \in DOMAIN elements :
              ~IsManaged(Current, id) => id \in DOMAIN elements']_vars


\* ------------------------------------------------------------------------
\* Relationships
\* ------------------------------------------------------------------------
\* the ids under which the ends of relationship r are persisted
SourceId(r) == IdOf(elements, relEnds[r].source)
TargetId(r) == IdOf(elements, relEnds[r].target)

\* the last call was a put of a relationship that returned, and the ledger
\* had an entry for its anchor
OnTracked ==
    /\ last.op = "put"
    /\ last.node \in RelNodes
    /\ last.err = "none"
    /\ last.preRel # NullTag

\* C11: a put of a relationship whose anchor is in the ledger with one end
\* changed leaves exactly one relationship instance, which connects the new
\* ends; the ledger entry names the new ends, and the presence tag is on the
\* new ends and on no other element.
C11_RelationshipMove ==
    (/\ OnTracked
     /\ (SourceId(last.node) # last.preRel.source)
          # (TargetId(last.node) # last.preRel.target))
      => /\ rels = {[id |-> last.ret, fullClass |-> RelClass[last.node],
                     source |-> SourceId(last.node),
                     target |-> TargetId(last.node)]}
         /\ Ledger(elements, RelAnchor[last.node]) =
               [id |-> last.ret, fullClass |-> RelClass[last.node],
                source |-> SourceId(last.node),
                target |-> TargetId(last.node)]
         /\ Tagged(elements, RelAnchor[last.node]) =
               {SourceId(last.node), TargetId(last.node)}

\* C12: a put of a relationship whose anchor is in the ledger with the same
\* class, source id and target id returns the id in the ledger and writes
\* nothing to the store.
C12_SamePutWritesNothing ==
    (/\ OnTracked
     /\ last.preRel.fullClass = RelClass[last.node]
     /\ last.preRel.source = SourceId(last.node)
     /\ last.preRel.target = TargetId(last.node))
      => /\ last.ret = last.preRel.id
         /\ last.writes = 0


NotLinkTable == "store: should be subclass of BisCore:ElementRefersToElements"

DependsOn(e) ==
    ({ElParent[e], MetaScope[e], MetaSource[e]}
       \cup (IF ElModel[e] \in ModelNodes
             THEN {ModeledElement[ElModel[e]]} ELSE {}))
      \cap ElementNodes

\* the nodes of S and all they depend on
RECURSIVE Closure(_)
Closure(S) ==
    Let(S \cup UNION {DependsOn(e) : e \in S}, LAMBDA T :
      IF T = S THEN S ELSE Closure(T))

\* C15: after sync of an element, the touched set holds the id of the
\* element and of every element it transitively depends on.
C15_TouchedComplete ==
    (last.op = "sync" /\ last.node \in ElementNodes /\ last.err = "none")
      => \A n \in Closure({last.node}) : IdOf(elements, n) \in touched


\* ------------------------------------------------------------------------
\* The sync of a model and of its modeled element
\* ------------------------------------------------------------------------
\* the jsonProperties a model has after an update from description j
UpdatedFrom(j, existing) == MergeJson(j, existing)

\* C16 as stated: when the version of the modeled element has changed and
\* sync(G) and sync(P) both run in the session, G is updated from its
\* description, whether sync(P) ran right before sync(G) or right after it.
C16_AsStated ==
    /\ (/\ last.op = "sync" /\ last.node \in ModelNodes
        /\ last.err = "none"
        /\ last.prevOp = "sync"
        /\ last.prevNode = ModeledElement[last.node]
        /\ last.prevChange = "changed")
         => models[last.ofId].json
              = UpdatedFrom(desc[last.node].json, last.preJson)
    /\ (/\ last.op = "sync" /\ last.node = "P"
        /\ last.err = "none" /\ last.change = "changed"
        /\ last.prevOp = "sync" /\ last.prevNode = "G"
        /\ desc["G"].json # "none")
         => models[last.preId].json = desc["G"].json

\* C16: when sync(G) runs while the stored version of the modeled element
\* differs from the version of its description, that is before sync(P), G is
\* updated from its description.
C16_GroupFirst ==
    (/\ last.op = "sync" /\ last.node \in ModelNodes
     /\ last.err = "none"
     /\ last.of # NoRow
     /\ last.of.meta[1].version # "none"
     /\ desc[ModeledElement[last.node]].version # "none"
     /\ last.of.meta[1].version # desc[ModeledElement[last.node]].version)
      => /\ last.change = "changed"
         /\ models[last.ofId].json
              = UpdatedFrom(desc[last.node].json, last.preJson)

\* sync(G) has replaced the jsonProperties of G with those of the
\* description, the version of P having changed
C16_Witness ==
    /\ last.op = "sync" /\ last.node = "G"
    /\ last.err = "none"
    /\ last.of # NoRow
    /\ last.of.meta[1].version = "v1"
    /\ desc["P"].version = "v2"
    /\ last.preJson = "j1"
    /\ desc["G"].json = "j2"
    /\ models[last.ofId].json = "j2"

\* C17: sync(G) leaves the stored row of the modeled element, fields and
\* provenance, as it was; sync(P) right after a sync(G) that found the
\* version changed reports it changed too, stores the new fields and the
\* new version, and G has the jsonProperties of its description.
C17_GroupThenElement ==
    /\ (last.op = "sync" /\ last.node \in ModelNodes /\ last.of # NoRow)
         => elements[last.ofId] = last.of
    /\ (/\ last.op = "sync" /\ last.node = "P"
        /\ last.prevOp = "sync" /\ last.prevNode = "G"
        /\ last.prevChange = "changed")
         => /\ last.err = "none"
            /\ last.change = "changed"
            /\ elements[last.preId].fields = desc["P"].fields
            /\ elements[last.preId].meta[1].version = desc["P"].version
            /\ models[last.preId].json
                 = UpdatedFrom(desc["G"].json, models[last.preId].json)

\* sync(G) and then sync(P) have run after the caller changed the version
\* and the fields of P and the jsonProperties of G
C17_Witness ==
    /\ last.op = "sync" /\ last.node = "P"
    /\ last.prevOp = "sync" /\ last.prevNode = "G"
    /\ last.prevChange = "changed"
    /\ last.pre # NoRow
    /\ last.pre.meta[1].version = "v1" /\ desc["P"].version = "v2"
    /\ last.pre.fields = "f1" /\ elements[last.preId].fields = "f2"
    /\ models[last.preId].json = "j1"


C19_SentinelsUntouched ==
    /\ RootId \in DOMAIN elements /\ elements[RootId] = RootRow
    /\ RepoId \in DOMAIN models /\ models[RepoId] = RepoRow
    /\ (last.op \in {"put", "sync", "trim", "new"})
         => /\ RootId \notin last.newEl \cup last.delEl
            /\ RepoId \notin last.newMd \cup last.delMd
    /\ (last.op \in {"put", "sync"} /\ last.node \in Sentinels)
         => /\ last.err = "none"
            /\ last.writes = 0
            /\ last.op = "put"
                 => last.ret = (IF last.node = "repository"
                                THEN RepoId ELSE RootId)

\* a trim of the root subject has deleted P and its child K, which the
\* session had not touched
C19_Witness ==
    /\ last.op = "trim" /\ last.node = "root subject"
    /\ last.err = "none"
    /\ Cardinality(last.delEl) = 2
    /\ ChildrenOfElement([el |-> elements], RootId) = {}


\* ------------------------------------------------------------------------
\* Runs
\* ------------------------------------------------------------------------
\* C20: a run that directly follows the same run, in a session of its own
\* and with the description as it was, returns and leaves the elements with
\* their provenance and tags, the models and the relationship instances of
\* the store as the first run left them.
C20_SecondRunChangesNothing ==
    [][(last'.op = "run" /\ last'.again)
         => /\ last'.err = "none"
            /\ UNCHANGED <<elements, models, rels>>]_vars


\* ------------------------------------------------------------------------
\* Aspects
\* ------------------------------------------------------------------------
\* C21: after a sync that found the element changed, the aspects stored on
\* it, the external source aspect aside, are exactly the aspects its
\* description declares, and it has the one external source aspect it had.
C21_AspectsAsDeclared ==
    (OnPersisted("sync") /\ last.change = "changed")
      => /\ elements[last.preId].aspects
              = DeclaredAspects(desc[last.node].aspects)
         /\ Len(elements[last.preId].meta) = 1


\* ------------------------------------------------------------------------
\* What put and sync leave in the store
\* ------------------------------------------------------------------------
\* C22: a put, a sync or the construction of a session deletes no element
\* and no model: all that were in the store before the call are in it after.
C22_PutSyncDeleteNothing ==
    [][(last'.op \in {"put", "sync", "new"})
         => /\ DOMAIN elements \subseteq DOMAIN elements'
            /\ DOMAIN models \subseteq DOMAIN models'
            /\ last'.delEl = {} /\ last'.delMd = {}]_vars

\* a sync has updated the changed element P, which models G, and a put of
\* G followed
C22_Witness ==
    /\ last.op = "put" /\ last.node = "G"
    /\ last.err = "none"
    /\ last.ret \in DOMAIN models
    /\ elements[last.ret].meta[1].version = "v2"
    /\ elements[last.ret].fields = "f2"


\* ------------------------------------------------------------------------
\* What trim deletes, and in which order
\* ------------------------------------------------------------------------
\* C23: when trim deletes an element, at that moment no element is parented
\* under it, the default subcategory of a category aside, and no element is
\* in the model it models.
C23_DeletedHaveNoChildren ==
    (last.op = "trim")
      => \A i \in 1..Len(last.log) :
           (last.log[i].kind = "element")
             => /\ last.log[i].owned = {} \/ last.log[i].exempt
                /\ last.log[i].contained = {}


RECURSIVE Deleted(_)
Deleted(log) ==
    IF log = <<>> THEN [elements |-> 0, aspects |-> 0]
    ELSE LET e == Head(log)
             rest == Deleted(Tail(log))
         IN IF e.kind # "element" THEN rest
            ELSE [elements |-> rest.elements
                                 + (IF e.exempt /\ e.owned # {} THEN 2 ELSE 1),
                  aspects |-> rest.aspects + e.aspects]

\* the definition elements the store refused to delete in the last call
Refused == {last.log[i].id : i \in {j \in 1..Len(last.log) :
                                      last.log[j].kind = "refused"}}

C26_LedgerMatchesTags ==
    \A r \in RelNodes :
      LET a == RelAnchor[r]
          entry == Ledger(elements, a)
      IN /\ (entry = NullTag) => Tagged(elements, a) = {}
         /\ (entry # NullTag)
              => /\ Tagged(elements, a) = {entry.source, entry.target}
                 /\ (last.op = "put" /\ last.node = r /\ last.err = "none")
                      => /\ entry.source = SourceId(r)
                         /\ entry.target = TargetId(r)


\* C27: after a trim that deleted an end of a relationship in the ledger, the
\* ledger has no entry for the anchor of the relationship and no surviving
\* element carries the presence tag of that anchor.
C27_NoDanglingProvenance ==
    (last.op = "trim")
      => \A a \in last.cut :
           /\ Ledger(elements, a) = NullTag
           /\ Tagged(elements, a) = {}


\* C28: after a put of a relationship that returned, exactly one relationship
\* instance exists for its anchor: the one the ledger entry of the anchor
\* names by id, class, source and target.
C28_OneInstancePerAnchor ==
    (last.op = "put" /\ last.node \in RelNodes /\ last.err = "none")
      => /\ Ledger(elements, RelAnchor[last.node]) # NullTag
         /\ rels = {Ledger(elements, RelAnchor[last.node])}


\* the id of the branch a trim was given: for a model, the id of the element
\* it models
BranchId(n) ==
    IdOf(elements, IF n \in ModelNodes THEN ModeledElement[n] ELSE n)

\* C29 as stated: the only id a trim adds to the touched set is the id of
\* the branch it is given.
C29_AsStated ==
    (last.op = "trim") => last.added \subseteq {BranchId(last.node)}

\* C29: no put, sync or trim removes an id from the touched set, and a trim
\* leaves the touched set as the put of its branch leaves it: the walk adds
\* no id, and the ids a trim adds are those the put of its branch adds.
C29_TouchedGrows ==
    [][(last'.op \in {"put", "sync", "trim"})
         => /\ touched \subseteq touched'
            /\ (last'.op = "trim")
                 => touched' = Put(Current, desc, last'.node).touched]_vars

\* a trim has returned, and its put has added the branch and another element
\* that the put of the branch resolves to the touched set
C29_Witness ==
    /\ last.op = "trim" /\ last.err = "none"
    /\ BranchId(last.node) \in last.added
    /\ last.added \ {BranchId(last.node)} # {}


\* the last call was a put of an element, of a model or of a sentinel
OnPut == last.op = "put" /\ last.node \notin RelNodes

C31_OneGroupPerElement ==
    [][(last'.op \in {"put", "sync"} /\ last'.node \in ModelNodes)
         => LET p == IdOf(elements, ModeledElement[last'.node])
                q == IdOf(elements', ModeledElement[last'.node])
            IN /\ last'.err = "none"
               /\ IF p \in DOMAIN models
                  THEN /\ last'.newMd = {}
                       /\ DOMAIN models' = DOMAIN models
                       /\ (last'.op = "put") => last'.ret = ModelOf(Current, p)
                  ELSE /\ last'.newMd = {q}
                       /\ DOMAIN models' = DOMAIN models \cup {q}
                       /\ (last'.op = "put") => last'.ret = q]_vars

\* a put of the Group has found the model of P, which an earlier call
\* inserted, and returned its id
C31_Witness ==
    /\ last.op = "put" /\ last.node \in ModelNodes /\ last.err = "none"
    /\ last.newMd = {} /\ last.newEl = {}
    /\ last.ret \in DOMAIN models
    /\ last.ret = IdOf(elements, ModeledElement[last.node])


\* the elements the engine inserted: all but the root subject, the default
\* subcategories the store adds, and the elements of other writers
Engineered ==
    {id \in DOMAIN elements \ {RootId} :
       /\ elements[id].cls # "subcategory"
       /\ elements[id].fields # "foreign"}

\* the lookup key of the external source aspect of element id
SourceKey(id) ==
    <<elements[id].meta[1].scope, elements[id].meta[1].kind,
      elements[id].meta[1].anchor>>

\* C32: every element the engine inserted carries exactly one external
\* source aspect, from the put that inserted it on, and no two external
\* source aspects have the same scope, kind and anchor.
C32_OneProvenanceEach ==
    /\ \A id \in Engineered : Len(elements[id].meta) = 1
    /\ \A i \in Engineered : \A j \in Engineered :
         (i # j) => SourceKey(i) # SourceKey(j)

\* a put has inserted X and the elements X depends on, in a store that
\* already held elements of an earlier session
C32_Witness ==
    /\ last.op = "put" /\ last.err = "none"
    /\ Cardinality(last.newEl) >= 2
    /\ last.newEl \subseteq Engineered
    /\ Engineered \ last.newEl # {}
    /\ \E i \in last.newEl : \E j \in Engineered \ last.newEl :
          elements[i].meta[1].scope = elements[j].meta[1].scope


MissingBookkeepingEntry ==
    "fatal: read relationship anchor in element but not in store"

\* C33: no trim raises the error of a relationship anchor that is on an
\* element and not in the ledger.
C33_LedgerErrorUnreachable ==
    (last.op = "trim") => last.err # MissingBookkeepingEntry


\* C34: the model, the parent, and the scope and the source of the external
\* source aspect of every element in the store are in the store.
C34_ReferencesExist ==
    \A id \in DOMAIN elements :
      /\ elements[id].model \in DOMAIN models
      /\ elements[id].parent \in DOMAIN elements \cup {NoId}
      /\ \A i \in 1..Len(elements[id].meta) :
           /\ elements[id].meta[i].scope \in DOMAIN elements
           /\ elements[id].meta[i].source \in DOMAIN elements \cup {NoId}


\* C35: the bookkeeping element is in the store and in the touched set of
\* every session; no trim deletes it, and a trim leaves the ledger entry of
\* every relationship whose two ends are in the store after the trim as it
\* was.
C35_LedgerSurvivesTrim ==
    [][/\ IdOf(elements', "B") \in touched'
       /\ (last'.op = "trim")
            => /\ IdOf(elements, "B") = IdOf(elements', "B")
               /\ IdOf(elements, "B") \notin last'.delEl
               /\ \A a \in Anchors :
                    (/\ Ledger(elements, a) # NullTag
                     /\ Ledger(elements, a).source \in DOMAIN elements'
                     /\ Ledger(elements, a).target \in DOMAIN elements')
                      => Ledger(elements', a) = Ledger(elements, a)]_vars


\* C36: a trim that deleted nothing and was refused the deletion of a
\* definition element leaves the elements with their tags, the ledger among
\* them, and the relationship instances as they were.
C36_RefusalLeavesStore ==
    [][(/\ last'.op = "trim" /\ last'.err = "none"
        /\ Refused' # {}
        /\ last'.delEl = {} /\ last'.newEl = {})
         => /\ elements' = elements
            /\ rels' = rels
            /\ models' = models]_vars


\* C37: a put of a relationship that fails inserts and deletes no relationship
\* instance, and leaves the ledger entry of every anchor and the presence
\* tags of every element as they were before the call.
C37_FailedPutKeepsRelationships ==
    [][(last'.op = "put" /\ last'.node \in RelNodes /\ last'.err # "none")
         => /\ rels' = rels
            /\ \A a \in Anchors :
                 /\ Ledger(elements', a) = Ledger(elements, a)
                 /\ Tagged(elements', a) = Tagged(elements, a)]_vars


\* C38: a trim that directly follows a returned trim of the same node in the
\* same session, the store refusing no deletion in either, returns with
\* all-zero counts, deletes nothing and leaves the elements, the models and
\* the relationship instances of the store as they were.
C38_TrimIdempotent ==
    [][(/\ last'.op = "trim" /\ last'.again
        /\ Refused = {} /\ Refused' = {})
         => /\ last'.err = "none"
            /\ last'.trim = NoTrim
            /\ last'.delEl = {} /\ last'.delMd = {}
            /\ elements' = elements
            /\ models' = models
            /\ rels' = rels]_vars

\* a second trim of the same node followed a trim that deleted something
C38_Witness ==
    /\ last.op = "trim" /\ last.again /\ last.err = "none"
    /\ Refused = {}
    /\ last.prevDel


\* C39: a sync, or the construction of a session, that updates a changed
\* element leaves every tag of the fir namespace on it as it was: its
\* presence tags, and on the bookkeeping element the ledger entries.
C39_UpdateKeepsTags ==
    [][(/\ last'.op \in {"sync", "new"} /\ last'.node \in ElementNodes
        /\ last'.err = "none" /\ last'.change = "changed"
        /\ last'.preId # NoId)
         => /\ last'.preId \in DOMAIN elements'
            /\ elements'[last'.preId].fir = elements[last'.preId].fir
            /\ elements'[last'.preId].tags = elements[last'.preId].tags
            /\ \A a \in Anchors :
                 /\ Ledger(elements', a) = Ledger(elements, a)
                 /\ Tagged(elements', a) = Tagged(elements, a)]_vars

\* a sync has updated an end of a relationship, or the bookkeeping element
\* with an entry in its ledger
C39_Witness ==
    /\ last.op = "sync" /\ last.node \in {"X", "B"}
    /\ last.err = "none" /\ last.change = "changed"
    /\ last.preId # NoId
    /\ last.pre.tags # NoTags
    /\ elements[last.preId].meta[1].version = "v2"

====
